---- MODULE Spec2Model ----
(***************************************************************************)
(* The mapbox base-plot module of plotly.js, src/plots/mapbox/index.js:    *)
(* access-token resolution (findAccessToken), the subplot wrapper          *)
(* lifecycle (plot, clean, toSVG) and the interaction refresh (updateFx).  *)
(*                                                                         *)
(* A graph div gd is the variables fullLayout (gd._fullLayout), calcdata   *)
(* (gd.calcdata), promises (gd._promises) and context (gd._context); the   *)
(* engine's module object is mapboxgl.  Mapbox wrapper objects live in the *)
(* heap `wrappers`: a wrapper is named by its cell there, and a layout     *)
(* slot fullLayout[id]._subplot holds such a cell, or 0 for undefined.  A  *)
(* destroyed wrapper that neither the layout nor a promise refers to any   *)
(* more is garbage, and its cell is free again.                            *)
(* `call` records the last call made on the module: which operation, how   *)
(* it ended, and the calls it made on its collaborators, in order.         *)
(***************************************************************************)
EXTENDS Integers, Sequences, FiniteSets, TLC

VARIABLES mapboxgl, context, fullLayout, calcdata, promises, wrappers, call

vars == <<mapboxgl, context, fullLayout, calcdata, promises, wrappers, call>>

(***************************************************************************)
(* Bounds of the model.                                                    *)
(***************************************************************************)
\* Entries of gd._promises between two resets by the host's draw cycle.
MaxPromises == 2

(***************************************************************************)
(* Program constants.                                                      *)
(***************************************************************************)
MAPBOX == "mapbox"

\* constants.requiredVersion
requiredVersion == "1.3.2"

\* constants.styleValuesMapbox
styleValuesMapbox ==
    <<"basic", "streets", "outdoors", "light", "dark", "satellite", "satellite-streets">>

(***************************************************************************)
(* The values the host draws a graph div from.                             *)
(***************************************************************************)
\* JavaScript's undefined or null, where a string is expected.
Null == "<null>"

SubplotIds == {"mapbox", "mapbox2"}

Versions == {requiredVersion, "1.1.1"}

ContextTokens == {Null, ""}

AccessTokens == {"", "pk.a", "pk.b"}

MapboxStyle == [typeof |-> "string", value |-> "basic"]

Styles == {MapboxStyle, [typeof |-> "string", value |-> "open-street-map"]}

\* A style given as a style object rather than by name.
ObjectStyle == [typeof |-> "object", value |-> "custom"]

View1 == [center |-> [lon |-> 0, lat |-> 0], zoom |-> 1, bearing |-> 0, pitch |-> 0]

Views == {View1, [center |-> [lon |-> 10, lat |-> 45], zoom |-> 4, bearing |-> 0, pitch |-> 0]}

\* The traces of gd.calcdata: each names the subplot it is drawn in.
CalcDatas == {<<[uid |-> "t1", subplot |-> "mapbox"], [uid |-> "t2", subplot |-> "mapbox2"],
                [uid |-> "t3", subplot |-> "mapbox"]>>}

\* The calcdata of the render runs: also one without a trace for "mapbox".
RenderCalcDatas ==
    CalcDatas \cup {<<[uid |-> "t4", subplot |-> "mapbox2"], [uid |-> "t5", subplot |-> "mapbox2"]>>}

Range(s) == {s[k] : k \in 1..Len(s)}

\* fullLayout._subplots.mapbox: the ids, each once, in the order the host
\* sorts them in ("mapbox" before "mapbox2").
IdLists == {<<>>, <<"mapbox">>, <<"mapbox2">>, <<"mapbox", "mapbox2">>}

\* A number of the layout, as the decimal num/den the host read.
Decimal(num, den) == [num |-> num, den |-> den]

\* fullLayout._size: the margins l and t and the plot area w by h, in px.
Size1 == [l |-> Decimal(0, 1), t |-> Decimal(0, 1), w |-> Decimal(800, 1), h |-> Decimal(600, 1)]

Sizes == {Size1,
          [l |-> Decimal(80, 1), t |-> Decimal(100, 1), w |-> Decimal(540, 1), h |-> Decimal(270, 1)]}

\* fullLayout[id].domain: the part of the plot area the subplot takes,
\* x[1] <= x[2] and y[1] <= y[2] within 0 and 1.
Domain1 == [x |-> <<Decimal(2, 10), Decimal(8, 10)>>, y |-> <<Decimal(1, 10), Decimal(9, 10)>>]

Domains == {Domain1,
            [x |-> <<Decimal(0, 1), Decimal(1, 1)>>, y |-> <<Decimal(0, 1), Decimal(1, 1)>>],
            [x |-> <<Decimal(0, 1), Decimal(45, 100)>>, y |-> <<Decimal(55, 100), Decimal(1, 1)>>],
            [x |-> <<Decimal(3, 10), Decimal(7, 10)>>, y |-> <<Decimal(0, 1), Decimal(1, 3)>>]}

\* fullLayout[id] as the layout defaults leave it: no _subplot yet.
SubplotOptsIn(styles, tokens, views, domains) ==
    {[style |-> s, accesstoken |-> t, center |-> v.center, zoom |-> v.zoom,
      bearing |-> v.bearing, pitch |-> v.pitch, domain |-> d, _subplot |-> 0] :
        s \in styles, t \in tokens, v \in views, d \in domains}

SubplotOpts(styles, tokens, views) == SubplotOptsIn(styles, tokens, views, {Domain1})

\* Full layouts: _subplots is fullLayout._subplots.mapbox, opts[id] is
\* fullLayout[id], defined for exactly the ids of _subplots, _size is
\* fullLayout._size.
LayoutsIn(idLists, subplotOpts, sizes) ==
    UNION {{[_subplots |-> ids, opts |-> o, _size |-> size] :
                o \in [Range(ids) -> subplotOpts], size \in sizes} :
              ids \in idLists}

LayoutsOf(idLists, subplotOpts) == LayoutsIn(idLists, subplotOpts, {Size1})

\* The layouts of the lifecycle runs: the views vary.
FullLayouts == LayoutsOf(IdLists, SubplotOpts({MapboxStyle}, {"pk.a"}, Views))

\* The layouts of the token runs: the styles and the tokens vary.
TokenLayouts == LayoutsOf(IdLists, SubplotOpts(Styles, AccessTokens, {View1}))

\* The layouts of the export runs: the sizes and the domains vary.
ExportLayouts ==
    LayoutsIn(IdLists, SubplotOptsIn({MapboxStyle}, {"pk.a"}, {View1}, Domains), Sizes)

\* The layouts token resolution alone is run on: up to three subplots in
\* any order, a token also null, a style also an object.
ResolverIds == {"mapbox", "mapbox2", "mapbox3"}

ResolverIdLists ==
    {s \in UNION {[1..n -> ResolverIds] : n \in 0..Cardinality(ResolverIds)} :
        \A j, k \in 1..Len(s) : j # k => s[j] # s[k]}

ResolverLayouts ==
    LayoutsOf(ResolverIdLists,
              SubplotOpts(Styles \cup {ObjectStyle}, AccessTokens \cup {Null}, {View1}))

(***************************************************************************)
(* What a call on a collaborator looks like in `call.trace`.               *)
(*   e    : "Lib.error", "Lib.warn", "Lib.log", "accessToken" (the write   *)
(*          of mapboxgl.accessToken), "new Mapbox", "viewInitial" (the     *)
(*          write of mapbox.viewInitial), "plot", "destroy", "toImage",    *)
(*          "image" (the svg:image appended), "updateFx"                   *)
(*   id   : the subplot id the call is made for, "" if none                *)
(*   w    : the wrapper the call is made on, 0 if none                     *)
(*   token: the token written, "" if none                                  *)
(*   data : the arguments handed to plot (the calcdata slice, the full     *)
(*          layout, the promises), the x, y, width and height of the image *)
(*          appended, <<>> otherwise                                       *)
(***************************************************************************)
Event(e, id, w) == [e |-> e, id |-> id, w |-> w, token |-> "", data |-> <<>>]

Count(trace, e) == Cardinality({k \in 1..Len(trace) : trace[k].e = e})

CountFor(trace, e, id) ==
    Cardinality({k \in 1..Len(trace) : trace[k].e = e /\ trace[k].id = id})

\* JavaScript's truthiness of a token and of an object reference.
TruthyString(s) == s # "" /\ s # Null

TruthyRef(w) == w # 0

(***************************************************************************)
(* findAccessToken                                                         *)
(***************************************************************************)
\* Array.prototype.indexOf
indexOf(array, item) ==
    IF \E k \in 1..Len(array) : array[k] = item
    THEN (CHOOSE k \in 1..Len(array) :
              array[k] = item /\ \A j \in 1..(k - 1) : array[j] # item) - 1
    ELSE -1

\* Lib.pushUnique
pushUnique(array, item) ==
    IF indexOf(array, item) = -1 THEN Append(array, item) ELSE array

\* line 145: the style is one of the styles hosted by Mapbox
isMapboxStyle(style) ==
    style.typeof = "string" /\ indexOf(styleValuesMapbox, style.value) # -1

\* Faulty variants of findAccessTokenStep.  A missing token is reported but does
\* not fail the resolution:
findAccessTokenStep_NoFailure(acc, id, opts) ==
    LET style == opts.style
        token == opts.accesstoken
        a1 == IF isMapboxStyle(style)
              THEN IF TruthyString(token)
                   THEN [acc EXCEPT !.tokensUseful = pushUnique(@, token)]
                   ELSE [acc EXCEPT !.trace = Append(@, Event("Lib.error", id, 0))]
              ELSE acc
    IN  IF TruthyString(token)
        THEN [a1 EXCEPT !.tokensListed = pushUnique(@, token)]
        ELSE a1

\* a token counts as useful whatever the style of its subplot:
findAccessTokenStep_AnyStyle(acc, id, opts) ==
    LET style == opts.style
        token == opts.accesstoken
        a1 == IF TruthyString(token)
              THEN [acc EXCEPT !.tokensUseful = pushUnique(@, token)]
              ELSE IF isMapboxStyle(style)
              THEN [acc EXCEPT !.trace = Append(@, Event("Lib.error", id, 0)),
                               !.wontWork = TRUE]
              ELSE acc
    IN  IF TruthyString(token)
        THEN [a1 EXCEPT !.tokensListed = pushUnique(@, token)]
        ELSE a1

\* the tokens listed are not recorded:
findAccessTokenStep_NoListed(acc, id, opts) ==
    LET style == opts.style
        token == opts.accesstoken
    IN  IF isMapboxStyle(style)
        THEN IF TruthyString(token)
             THEN [acc EXCEPT !.tokensUseful = pushUnique(@, token)]
             ELSE [acc EXCEPT !.trace = Append(@, Event("Lib.error", id, 0)),
                              !.wontWork = TRUE]
        ELSE acc

\* every useful token is pushed, also one pushed before:
findAccessTokenStep_PushAll(acc, id, opts) ==
    LET style == opts.style
        token == opts.accesstoken
        a1 == IF isMapboxStyle(style)
              THEN IF TruthyString(token)
                   THEN [acc EXCEPT !.tokensUseful = Append(@, token)]
                   ELSE [acc EXCEPT !.trace = Append(@, Event("Lib.error", id, 0)),
                                    !.wontWork = TRUE]
              ELSE acc
    IN  IF TruthyString(token)
        THEN [a1 EXCEPT !.tokensListed = pushUnique(@, token)]
        ELSE a1

\* lines 141-156: one turn of the loop over the subplot ids
findAccessTokenStep(acc, id, opts) ==
    LET style == opts.style
        token == opts.accesstoken
        a1 == IF isMapboxStyle(style)
              THEN IF TruthyString(token)
                   THEN [acc EXCEPT !.tokensUseful = pushUnique(@, token)]
                   ELSE [acc EXCEPT !.trace = Append(@, Event("Lib.error", id, 0)),
                                    !.wontWork = TRUE]
              ELSE acc
    IN  IF TruthyString(token)
        THEN [a1 EXCEPT !.tokensListed = pushUnique(@, token)]
        ELSE a1

\* Faulty variant of findAccessTokenLoop: the loop ends at the first subplot
\* that lacks a token.
RECURSIVE findAccessTokenLoop_StopAtFirst(_, _, _, _)
findAccessTokenLoop_StopAtFirst(layout, mapboxIds, i, acc) ==
    IF i > Len(mapboxIds) \/ acc.wontWork THEN acc
    ELSE findAccessTokenLoop_StopAtFirst(layout, mapboxIds, i + 1,
             findAccessTokenStep(acc, mapboxIds[i], layout.opts[mapboxIds[i]]))

RECURSIVE findAccessTokenLoop(_, _, _, _)
findAccessTokenLoop(layout, mapboxIds, i, acc) ==
    IF i > Len(mapboxIds) THEN acc
    ELSE findAccessTokenLoop(layout, mapboxIds, i + 1,
             findAccessTokenStep(acc, mapboxIds[i], layout.opts[mapboxIds[i]]))

\* Faulty variant of emptyContextToken: the context's token is not looked at.
emptyContextToken_Never(ctx) == FALSE

\* line 132: the special case for Mapbox Atlas users
emptyContextToken(ctx) == ctx.mapboxAccessToken = ""

\* lines 127-177.  The result: threw (the noAccessTokenErrorMsg error), the
\* token returned, and the Lib.error/warn/log calls made.
findAccessToken(ctx, layout, mapboxIds) ==
    IF emptyContextToken(ctx)
    THEN [threw |-> FALSE, token |-> "", trace |-> <<>>]
    ELSE LET acc == findAccessTokenLoop(layout, mapboxIds, 1,
                        [tokensUseful |-> <<>>, tokensListed |-> <<>>,
                         wontWork |-> FALSE, trace |-> <<>>])
         IN  IF acc.wontWork
             THEN [threw |-> TRUE, token |-> "", trace |-> acc.trace]
             ELSE IF Len(acc.tokensUseful) # 0
             THEN [threw |-> FALSE, token |-> acc.tokensUseful[1],
                   trace |-> IF Len(acc.tokensUseful) > 1
                             THEN Append(acc.trace, Event("Lib.warn", "", 0))
                             ELSE acc.trace]
             ELSE [threw |-> FALSE, token |-> "",
                   trace |-> IF Len(acc.tokensListed) # 0
                             THEN Append(acc.trace, Event("Lib.log", "", 0))
                             ELSE acc.trace]

(***************************************************************************)
(* The Mapbox wrapper (./mapbox) and the other collaborators.              *)
(***************************************************************************)
\* JavaScript's undefined, where an object is expected; a free heap cell.
Undefined == [undefined |-> TRUE]

\* The heap has a cell for every wrapper that is not garbage: one per
\* subplot id and one per promise.
Cells == 1..(Cardinality(SubplotIds) + MaxPromises)

FreeCells(heap) == {w \in Cells : heap[w] = Undefined}

\* The cell the next wrapper is made in: the lowest free one.
NewCell(heap) == CHOOSE w \in FreeCells(heap) : \A v \in FreeCells(heap) : w <= v

\* Garbage collection: a destroyed wrapper that no layout slot and no
\* promise refers to is gone.
collect(heap, layout, proms) ==
    [w \in Cells |->
        IF /\ heap[w] # Undefined
           /\ heap[w].destroyed
           /\ \A id \in DOMAIN layout.opts : layout.opts[id]._subplot # w
           /\ \A k \in 1..Len(proms) : proms[k].w # w
        THEN Undefined
        ELSE heap[w]]

\* {}
EmptyObject == [k \in {} |-> 0]

\* Lib.extendFlat(target, source): the own keys of source copied onto target
extendFlat(target, source) ==
    [k \in DOMAIN target \cup DOMAIN source |->
        IF k \in DOMAIN source THEN source[k] ELSE target[k]]

\* new Mapbox(gd, id): a live wrapper with no viewInitial
Mapbox(id) == [id |-> id, destroyed |-> FALSE, viewInitial |-> Undefined]

\* getSubplotCalcData(calcData, type, subplotId): the traces of that subplot
getSubplotCalcData(calcData, type, subplotId) ==
    SelectSeq(calcData, LAMBDA cd : cd.subplot = subplotId)

\* mapbox.plot(subplotCalcData, fullLayout, promises): starts a render and
\* pushes its promise onto the shared collection
MapboxPlot(st, mapbox, id, subplotCalcData) ==
    [st EXCEPT !.promises = Append(@, [w |-> mapbox, settled |-> FALSE]),
               !.trace = Append(@, [Event("plot", id, mapbox) EXCEPT
                                        !.data = <<subplotCalcData, st.fullLayout,
                                                   st.promises>>])]

\* mapbox.destroy(): stops rendering and releases the engine's map; it
\* touches no layout
MapboxDestroy(st, mapbox, id) ==
    [st EXCEPT !.wrappers[mapbox].destroyed = TRUE,
               !.trace = Append(@, Event("destroy", id, mapbox))]

(***************************************************************************)
(* exports.plot                                                            *)
(***************************************************************************)
\* Faulty variant of wrongVersion: the version is not checked.
wrongVersion_Never(gl) == FALSE

\* line 55
wrongVersion(gl) == gl.version # requiredVersion

\* Faulty variant of needsMapbox: a wrapper is constructed at every plot call.
needsMapbox_Always(_subplot) == TRUE

\* line 68: if(!mapbox)
needsMapbox(_subplot) == ~TruthyRef(_subplot)

\* Faulty variant of needsViewInitial: viewInitial is written at every plot call.
needsViewInitial_Always(wrapper) == TRUE

\* line 73: if(!mapbox.viewInitial)
needsViewInitial(wrapper) == wrapper.viewInitial = Undefined

\* lines 74-79
viewInitialOf(opts) ==
    [center |-> extendFlat(EmptyObject, opts.center), zoom |-> opts.zoom,
     bearing |-> opts.bearing, pitch |-> opts.pitch]

\* lines 63-82: one turn of the loop over the subplot ids.  st is the part
\* of the state the loop works on: fullLayout, wrappers, promises, trace.
plotSubplot(st, id, calcData) ==
    LET subplotCalcData == getSubplotCalcData(calcData, MAPBOX, id)
        opts == st.fullLayout.opts[id]
        create == needsMapbox(opts._subplot)
        mapbox == IF create THEN NewCell(st.wrappers) ELSE opts._subplot
        s1 == IF create
              THEN [st EXCEPT !.wrappers[mapbox] = Mapbox(id),
                              !.fullLayout.opts[id]._subplot = mapbox,
                              !.trace = Append(@, Event("new Mapbox", id, mapbox))]
              ELSE st
        s2 == IF needsViewInitial(s1.wrappers[mapbox])
              THEN [s1 EXCEPT !.wrappers[mapbox].viewInitial = viewInitialOf(opts),
                              !.trace = Append(@, Event("viewInitial", id, mapbox))]
              ELSE s1
    IN  MapboxPlot(s2, mapbox, id, subplotCalcData)

\* Faulty variant of plotLoop: the ids are gone through from the last one.
RECURSIVE plotLoop_Backwards(_, _, _, _)
plotLoop_Backwards(st, mapboxIds, i, calcData) ==
    IF i > Len(mapboxIds) THEN st
    ELSE plotSubplot(plotLoop_Backwards(st, mapboxIds, i + 1, calcData),
                     mapboxIds[i], calcData)

RECURSIVE plotLoop(_, _, _, _)
plotLoop(st, mapboxIds, i, calcData) ==
    IF i > Len(mapboxIds) THEN st
    ELSE plotLoop(plotSubplot(st, mapboxIds[i], calcData), mapboxIds, i + 1, calcData)

\* Faulty variant of setAccessToken: the token found is not written.
setAccessToken_Skipped(gl, accessToken) == gl

\* lines 59-60: the token found is written to the engine
setAccessToken(gl, accessToken) == [gl EXCEPT !.accessToken = accessToken]

\* The wrappers a plot call would construct, and the promises it would push.
WouldConstruct(layout) ==
    Cardinality({id \in Range(layout._subplots) : needsMapbox(layout.opts[id]._subplot)})

plot ==
    LET mapboxIds == fullLayout._subplots IN
    IF wrongVersion(mapboxgl)
    THEN /\ call' = [op |-> "plot", result |-> "wrongVersionError", trace |-> <<>>]
         /\ UNCHANGED <<mapboxgl, context, fullLayout, calcdata, promises, wrappers>>
    ELSE LET found == findAccessToken(context, fullLayout, mapboxIds) IN
         IF found.threw
         THEN /\ call' = [op |-> "plot", result |-> "noAccessTokenError",
                          trace |-> found.trace]
              /\ UNCHANGED <<mapboxgl, context, fullLayout, calcdata, promises, wrappers>>
         ELSE LET st == plotLoop([fullLayout |-> fullLayout, wrappers |-> wrappers,
                                  promises |-> promises,
                                  trace |-> Append(found.trace,
                                      [Event("accessToken", "", 0) EXCEPT
                                           !.token = found.token])],
                                 mapboxIds, 1, calcdata)
              IN  /\ WouldConstruct(fullLayout) <= Cardinality(FreeCells(wrappers))
                  /\ Len(promises) + Len(mapboxIds) <= MaxPromises
                  /\ mapboxgl' = setAccessToken(mapboxgl, found.token)
                  /\ fullLayout' = st.fullLayout
                  /\ wrappers' = st.wrappers
                  /\ promises' = st.promises
                  /\ call' = [op |-> "plot", result |-> "returned", trace |-> st.trace]
                  /\ UNCHANGED <<context, calcdata>>

(***************************************************************************)
(* exports.clean                                                           *)
(***************************************************************************)
\* Faulty variant of cleanDestroys: the new layout is not looked at.
cleanDestroys_All(newFullLayout, oldFullLayout, oldMapboxKey) ==
    TruthyRef(oldFullLayout.opts[oldMapboxKey]._subplot)

\* line 92
cleanDestroys(newFullLayout, oldFullLayout, oldMapboxKey) ==
    /\ oldMapboxKey \notin DOMAIN newFullLayout.opts
    /\ TruthyRef(oldFullLayout.opts[oldMapboxKey]._subplot)

RECURSIVE cleanLoop(_, _, _, _, _)
cleanLoop(st, newFullLayout, oldFullLayout, oldMapboxKeys, i) ==
    IF i > Len(oldMapboxKeys) THEN st
    ELSE LET oldMapboxKey == oldMapboxKeys[i] IN
         cleanLoop(IF cleanDestroys(newFullLayout, oldFullLayout, oldMapboxKey)
                   THEN MapboxDestroy(st, oldFullLayout.opts[oldMapboxKey]._subplot,
                                      oldMapboxKey)
                   ELSE st,
                   newFullLayout, oldFullLayout, oldMapboxKeys, i + 1)

\* The host's relinkPrivateKeys: a subplot kept by the new layout keeps its
\* _subplot.
relinkPrivateKeys(newFullLayout, oldFullLayout) ==
    [newFullLayout EXCEPT !.opts =
        [id \in DOMAIN newFullLayout.opts |->
            IF id \in DOMAIN oldFullLayout.opts
            THEN [newFullLayout.opts[id] EXCEPT
                      !._subplot = oldFullLayout.opts[id]._subplot]
            ELSE newFullLayout.opts[id]]]

\* The host supplies the defaults of a new layout, calls clean with the new
\* and the old one, and goes on with the new one.  clean writes nothing to
\* the old layout: call.oldSubplot is oldFullLayout[key]._subplot as the call
\* leaves it, for the keys whose wrapper it destroyed.
cleanWith(layouts, calcDatas) ==
    \E suppliedLayout \in layouts, newCalcData \in calcDatas :
        LET oldFullLayout == fullLayout
            newFullLayout == relinkPrivateKeys(suppliedLayout, oldFullLayout)
            st == cleanLoop([wrappers |-> wrappers, trace |-> <<>>],
                            newFullLayout, oldFullLayout, oldFullLayout._subplots, 1)
        IN  /\ wrappers' = collect(st.wrappers, newFullLayout, promises)
            /\ fullLayout' = newFullLayout
            /\ calcdata' = newCalcData
            /\ call' = [op |-> "clean", result |-> "returned", trace |-> st.trace,
                        oldSubplot |->
                            [oldMapboxKey \in {st.trace[k].id : k \in 1..Len(st.trace)} |->
                                oldFullLayout.opts[oldMapboxKey]._subplot]]
            /\ UNCHANGED <<mapboxgl, context, promises>>

cleanFrom(layouts) == cleanWith(layouts, CalcDatas)

clean == cleanFrom(FullLayouts)

cleanTokens == cleanFrom(TokenLayouts)

(***************************************************************************)
(* JavaScript numbers.  A number of the layout is written num/den, the     *)
(* decimal the host read; the value the program computes with is the       *)
(* binary64 nearest to it.  A binary64 is [m, e], worth m * 2^e, with m    *)
(* either zero or of exactly Precision bits; m is a natural number kept as *)
(* its limbs, least significant first, since it exceeds the integers of    *)
(* the model checker.  The numbers of an export are finite, not negative   *)
(* and far from the ends of the exponent range, so signs, subnormals and   *)
(* infinities are left out.                                                *)
(***************************************************************************)
\* bits of a limb
LimbBits == 12

LimbBase == 2 ^ LimbBits

\* bits of the significand of a binary64
Precision == 53

\* bits the quotient num/den is carried to before it is rounded
GuardBits == 72

Max(a, b) == IF a >= b THEN a ELSE b

Min(a, b) == IF a <= b THEN a ELSE b

\* limb k of n, counted from 0
Limb(n, k) == IF k + 1 \in DOMAIN n THEN n[k + 1] ELSE 0

RECURSIVE Trim(_)
Trim(n) == IF n # <<>> /\ n[Len(n)] = 0 THEN Trim(SubSeq(n, 1, Len(n) - 1)) ELSE n

RECURSIVE Carry(_, _, _)
Carry(cols, k, c) ==
    IF k > Len(cols)
    THEN IF c = 0 THEN <<>> ELSE <<c % LimbBase>> \o Carry(cols, k, c \div LimbBase)
    ELSE LET v == cols[k] + c
         IN  <<v % LimbBase>> \o Carry(cols, k + 1, v \div LimbBase)

\* the natural number whose limbs, before carrying, are cols
Natural(cols) == Trim(Carry(cols, 1, 0))

AddNat(a, b) ==
    Natural([k \in 1..Max(Len(a), Len(b)) |-> Limb(a, k - 1) + Limb(b, k - 1)])

RECURSIVE Borrow(_, _, _, _)
Borrow(a, b, k, c) ==
    IF k > Len(a) THEN <<>>
    ELSE LET v == a[k] - Limb(b, k - 1) - c
         IN  IF v < 0 THEN <<v + LimbBase>> \o Borrow(a, b, k + 1, 1)
             ELSE <<v>> \o Borrow(a, b, k + 1, 0)

\* a - b, for a >= b
SubNat(a, b) == Trim(Borrow(a, b, 1, 0))

RECURSIVE Column(_, _, _, _)
Column(a, b, k, i) ==
    IF i > k THEN 0 ELSE Limb(a, i) * Limb(b, k - i) + Column(a, b, k, i + 1)

MulNat(a, b) ==
    IF a = <<>> \/ b = <<>> THEN <<>>
    ELSE Natural([k \in 1..(Len(a) + Len(b)) |-> Column(a, b, k - 1, 0)])

LessNat(a, b) ==
    IF Len(a) # Len(b) THEN Len(a) < Len(b)
    ELSE \E k \in 1..Len(a) : a[k] < b[k] /\ \A j \in (k + 1)..Len(a) : a[j] = b[j]

\* 2^s
Pow2(s) ==
    [k \in 1..(s \div LimbBits + 1) |->
        IF k = s \div LimbBits + 1 THEN 2 ^ (s % LimbBits) ELSE 0]

ShiftLeft(n, s) == MulNat(n, Pow2(s))

ShiftRight(n, s) ==
    LET q == s \div LimbBits
        r == s % LimbBits
    IN  Trim([k \in 1..Len(n) |->
                 (Limb(n, k - 1 + q) \div 2 ^ r)
                     + (Limb(n, k + q) % 2 ^ r) * 2 ^ (LimbBits - r)])

BitLength(n) ==
    IF n = <<>> THEN 0
    ELSE (Len(n) - 1) * LimbBits
             + (CHOOSE b \in 1..LimbBits : 2 ^ (b - 1) <= n[Len(n)] /\ n[Len(n)] < 2 ^ b)

Bit(n, i) == (Limb(n, i \div LimbBits) \div 2 ^ (i % LimbBits)) % 2

RECURSIVE DivLimbs(_, _, _, _)
DivLimbs(a, k, d, rem) ==
    IF k = 0 THEN [q |-> <<>>, r |-> rem]
    ELSE LET v == rem * LimbBase + a[k]
             rest == DivLimbs(a, k - 1, d, v % d)
         IN  [q |-> Append(rest.q, v \div d), r |-> rest.r]

\* quotient and remainder of a by the small d
DivSmall(a, d) ==
    LET qr == DivLimbs(a, Len(a), d, 0) IN [q |-> Trim(qr.q), r |-> qr.r]

Zero == [m |-> <<>>, e |-> 0]

\* The binary64 nearest to n * 2^e, ties going to the even significand.
round(n, e) ==
    IF n = <<>> THEN Zero
    ELSE LET L == BitLength(n) IN
         IF L <= Precision
         THEN [m |-> ShiftLeft(n, Precision - L), e |-> e - (Precision - L)]
         ELSE LET s == L - Precision
                  q == ShiftRight(n, s)
                  half == Bit(n, s - 1) = 1
                  sticky == \E i \in 0..(s - 2) : Bit(n, i) = 1
                  up == half /\ (sticky \/ Bit(q, 0) = 1)
                  q1 == IF up THEN AddNat(q, <<1>>) ELSE q
              IN  IF BitLength(q1) > Precision
                  THEN [m |-> ShiftRight(q1, 1), e |-> e + s + 1]
                  ELSE [m |-> q1, e |-> e + s]

\* the number a decimal of the layout is read as
Number(lit) ==
    LET qr == DivSmall(ShiftLeft(Natural(<<lit.num>>), GuardBits), lit.den)
    IN  round(AddNat(ShiftLeft(qr.q, 1), IF qr.r = 0 THEN <<>> ELSE <<1>>),
              0 - GuardBits - 1)

\* x * y
times(x, y) == round(MulNat(x.m, y.m), x.e + y.e)

\* x + y
plus(x, y) ==
    IF x = Zero THEN y
    ELSE IF y = Zero THEN x
    ELSE LET e == Min(x.e, y.e)
         IN  round(AddNat(ShiftLeft(x.m, x.e - e), ShiftLeft(y.m, y.e - e)), e)

\* x - y, for x >= y
minus(x, y) ==
    IF y = Zero THEN x
    ELSE LET e == Min(x.e, y.e)
         IN  round(SubNat(ShiftLeft(x.m, x.e - e), ShiftLeft(y.m, y.e - e)), e)

(***************************************************************************)
(* exports.toSVG                                                           *)
(***************************************************************************)
\* Faulty variant of imageAttr: the y axis is not turned over.
imageAttr_NotFlipped(size, domain) ==
    LET l == Number(size.l)
        t == Number(size.t)
        w == Number(size.w)
        h == Number(size.h)
        x == <<Number(domain.x[1]), Number(domain.x[2])>>
        y == <<Number(domain.y[1]), Number(domain.y[2])>>
    IN  [x |-> plus(l, times(w, x[1])),
         y |-> plus(t, times(h, y[1])),
         width |-> times(w, minus(x[2], x[1])),
         height |-> times(h, minus(y[2], y[1]))]

\* lines 114-117: where the image goes.  domain.x[0] and domain.x[1] of the
\* source are x[1] and x[2] here.
imageAttr(size, domain) ==
    LET l == Number(size.l)
        t == Number(size.t)
        w == Number(size.w)
        h == Number(size.h)
        x == <<Number(domain.x[1]), Number(domain.x[2])>>
        y == <<Number(domain.y[1]), Number(domain.y[2])>>
    IN  [x |-> plus(l, times(w, x[1])),
         y |-> plus(t, times(h, minus(Number(Decimal(1, 1)), y[2]))),
         width |-> times(w, minus(x[2], x[1])),
         height |-> times(h, minus(y[2], y[1]))]

\* imageAttr, worked out once for every size and domain a layout can have
imageAttrs == [size \in Sizes, domain \in Domains |-> imageAttr(size, domain)]

\* lines 104-121: one turn of the loop; mapbox.toImage on undefined throws
RECURSIVE toSVGLoop(_, _, _, _)
toSVGLoop(st, layout, subplotIds, i) ==
    IF i > Len(subplotIds) THEN st
    ELSE LET id == subplotIds[i]
             mapbox == layout.opts[id]._subplot
         IN  IF ~TruthyRef(mapbox)
             THEN [st EXCEPT !.result = "TypeError"]
             ELSE toSVGLoop(
                      MapboxDestroy(
                          [st EXCEPT !.trace = @ \o
                              <<Event("toImage", id, mapbox),
                                [Event("image", id, mapbox) EXCEPT
                                     !.data = imageAttrs[layout._size, layout.opts[id].domain]]>>],
                          mapbox, id),
                      layout, subplotIds, i + 1)

\* Faulty variant of toSVG: the renders under way are not left alone.
toSVG_Awaiting ==
    LET st == toSVGLoop([wrappers |-> wrappers, trace |-> <<>>, result |-> "returned"],
                        fullLayout, fullLayout._subplots, 1)
    IN  /\ wrappers' = st.wrappers
        /\ promises' = <<>>
        /\ call' = [op |-> "toSVG", result |-> st.result, trace |-> st.trace]
        /\ UNCHANGED <<mapboxgl, context, fullLayout, calcdata>>

toSVG ==
    LET st == toSVGLoop([wrappers |-> wrappers, trace |-> <<>>, result |-> "returned"],
                        fullLayout, fullLayout._subplots, 1)
    IN  /\ wrappers' = st.wrappers
        /\ call' = [op |-> "toSVG", result |-> st.result, trace |-> st.trace]
        /\ UNCHANGED <<mapboxgl, context, fullLayout, calcdata, promises>>

(***************************************************************************)
(* exports.updateFx                                                        *)
(***************************************************************************)
\* lines 183-186: subplotObj.updateFx on undefined throws
RECURSIVE updateFxLoop(_, _, _, _)
updateFxLoop(st, layout, subplotIds, i) ==
    IF i > Len(subplotIds) THEN st
    ELSE LET id == subplotIds[i]
             subplotObj == layout.opts[id]._subplot
         IN  IF ~TruthyRef(subplotObj)
             THEN [st EXCEPT !.result = "TypeError"]
             ELSE updateFxLoop([st EXCEPT !.trace = Append(@, Event("updateFx", id, subplotObj))],
                               layout, subplotIds, i + 1)

\* Faulty variant of updateFx: it clears the global token.
updateFx_ClearingToken ==
    LET st == updateFxLoop([trace |-> <<>>, result |-> "returned"],
                           fullLayout, fullLayout._subplots, 1)
    IN  /\ call' = [op |-> "updateFx", result |-> st.result, trace |-> st.trace]
        /\ mapboxgl' = setAccessToken(mapboxgl, "")
        /\ UNCHANGED <<context, fullLayout, calcdata, promises, wrappers>>

updateFx ==
    LET st == updateFxLoop([trace |-> <<>>, result |-> "returned"],
                           fullLayout, fullLayout._subplots, 1)
    IN  /\ call' = [op |-> "updateFx", result |-> st.result, trace |-> st.trace]
        /\ UNCHANGED <<mapboxgl, context, fullLayout, calcdata, promises, wrappers>>

(***************************************************************************)
(* The host's draw cycle and the engine's renders.                         *)
(***************************************************************************)
\* A render started by mapbox.plot completes: its promise settles.  Nothing
\* of this module runs then.
settle ==
    \E k \in 1..Len(promises) :
        /\ ~promises[k].settled
        /\ promises' = [promises EXCEPT ![k].settled = TRUE]
        /\ call' = [op |-> "settle", result |-> "returned",
                    trace |-> <<Event("settled", wrappers[promises[k].w].id, promises[k].w)>>]
        /\ UNCHANGED <<mapboxgl, context, fullLayout, calcdata, wrappers>>

\* The host's previousPromises: it waits until every render of gd._promises
\* has completed, and the draw cycle goes on with an empty gd._promises.
previousPromises ==
    /\ promises # <<>>
    /\ promises' = <<>>
    /\ wrappers' = collect(wrappers, fullLayout, <<>>)
    /\ call' = [op |-> "previousPromises", result |-> "returned", trace |-> <<>>]
    /\ UNCHANGED <<mapboxgl, context, fullLayout, calcdata>>

(***************************************************************************)
(* The specification.                                                      *)
(***************************************************************************)
StartWith(versions, contextTokens, layouts, calcDatas) ==
    /\ mapboxgl \in [version : versions, accessToken : {Null}]
    /\ context \in [mapboxAccessToken : contextTokens]
    /\ fullLayout \in layouts
    /\ calcdata \in calcDatas
    /\ promises = <<>>
    /\ wrappers = [w \in Cells |-> Undefined]
    /\ call = [op |-> "init", result |-> "returned", trace |-> <<>>]

Start(versions, contextTokens, layouts) ==
    StartWith(versions, contextTokens, layouts, CalcDatas)

\* The lifecycle runs: every operation of the module, on layouts whose
\* views vary.
Init == Start(Versions, {Null}, FullLayouts)

Next ==
    \/ plot
    \/ clean
    \/ toSVG
    \/ updateFx
    \/ previousPromises

Spec == Init /\ [][Next]_vars

\* The token runs: plot between layout updates, on layouts whose styles and
\* tokens vary, under either context.
InitToken == Start(Versions, ContextTokens, TokenLayouts)

NextToken ==
    \/ plot
    \/ cleanTokens
    \/ previousPromises

SpecToken == InitToken /\ [][NextToken]_vars

\* Token resolution alone: findAccessToken(gd, mapboxIds) on a graph div as
\* the host made it.  The token it returns is the "return" entry of the
\* call's trace.
resolveToken ==
    LET found == findAccessToken(context, fullLayout, fullLayout._subplots) IN
    /\ call.op = "init"
    /\ call' = [op |-> "findAccessToken",
                result |-> IF found.threw THEN "noAccessTokenError" ELSE "returned",
                trace |-> IF found.threw THEN found.trace
                          ELSE Append(found.trace,
                                      [Event("return", "", 0) EXCEPT !.token = found.token])]
    /\ UNCHANGED <<mapboxgl, context, fullLayout, calcdata, promises, wrappers>>

InitResolver == Start({requiredVersion}, ContextTokens, ResolverLayouts)

NextResolver == resolveToken

SpecResolver == InitResolver /\ [][NextResolver]_vars

\* The export runs: plot and toSVG on layouts whose sizes and domains vary.
InitExport == Start({requiredVersion}, {Null}, ExportLayouts)

NextExport ==
    \/ plot
    \/ toSVG
    \/ previousPromises

SpecExport == InitExport /\ [][NextExport]_vars

\* The render runs: the renders started by plot complete one by one, while
\* the module is called on; the calcdata varies.
RenderLayouts == LayoutsOf(IdLists, SubplotOpts({MapboxStyle}, {"pk.a"}, {View1}))

cleanRender == cleanWith(RenderLayouts, RenderCalcDatas)

InitRender == StartWith({requiredVersion}, {Null}, RenderLayouts, RenderCalcDatas)

NextRender ==
    \/ plot
    \/ cleanRender
    \/ toSVG
    \/ settle
    \/ previousPromises

SpecRender == InitRender /\ [][NextRender]_vars

(***************************************************************************)
(* What the claims speak of.                                               *)
(***************************************************************************)
\* A hosted (Mapbox) style: one of the names of styleValuesMapbox.
HostedStyle(style) == style.typeof = "string" /\ style.value \in Range(styleValuesMapbox)

CarriesToken(opts) == opts.accesstoken \notin {"", Null}

\* Some subplot of the layout has a hosted style and carries no token.
MissingToken(layout) ==
    \E id \in Range(layout._subplots) :
        HostedStyle(layout.opts[id].style) /\ ~CarriesToken(layout.opts[id])

\* The places in the subplot list of the hosted-style subplots that carry a token.
UsefulAt(layout) ==
    {k \in 1..Len(layout._subplots) :
        /\ HostedStyle(layout.opts[layout._subplots[k]].style)
        /\ CarriesToken(layout.opts[layout._subplots[k]])}

UsefulTokens(layout) == {layout.opts[layout._subplots[k]].accesstoken : k \in UsefulAt(layout)}

FirstUsefulToken(layout) ==
    LET k == CHOOSE j \in UsefulAt(layout) : \A i \in UsefulAt(layout) : j <= i
    IN  layout.opts[layout._subplots[k]].accesstoken

ListsToken(layout) == \E id \in Range(layout._subplots) : CarriesToken(layout.opts[id])

NoHostedStyle(layout) ==
    \A id \in Range(layout._subplots) : ~HostedStyle(layout.opts[id].style)

Occupied(heap) == {w \in DOMAIN heap : heap[w] # Undefined}

Live(heap) == {w \in Occupied(heap) : ~heap[w].destroyed}

\* The call's entries of one kind.
Entries(e) == {k \in 1..Len(call.trace) : call.trace[k].e = e}

\* The token the call returned, for a call of findAccessToken that returned.
Returned == call.trace[Len(call.trace)].token

\* The call touched no wrapper: none constructed, no viewInitial set, none plotted.
TouchesNoWrapper(trace) ==
    \A k \in 1..Len(trace) : trace[k].e \notin {"new Mapbox", "viewInitial", "plot"}

(***************************************************************************)
(* C1.  As claimed: whenever the layout has a hosted-style subplot without *)
(* a token, plot fails with the missing-token error and touches no         *)
(* wrapper.  This fails: under a wrong engine version plot fails with the  *)
(* version error instead, and under the context's empty token it plots.    *)
(***************************************************************************)
C1_MissingTokenAlwaysFails ==
    (call.op = "plot" /\ MissingToken(fullLayout))
        => (call.result = "noAccessTokenError" /\ TouchesNoWrapper(call.trace))

\* C1, amended: when the engine has the required version and the context's
\* token is not the empty string, a plot call on a layout with a
\* hosted-style subplot without a token fails with the missing-token error,
\* and the call constructs no wrapper, sets no viewInitial, invokes no
\* wrapper's plot and leaves the heap, the layout and the promises as they were.
C1_MissingTokenFails ==
    [][(/\ call'.op = "plot"
        /\ MissingToken(fullLayout)
        /\ mapboxgl.version = requiredVersion
        /\ context.mapboxAccessToken # "")
          => (/\ call'.result = "noAccessTokenError"
              /\ TouchesNoWrapper(call'.trace)
              /\ UNCHANGED <<wrappers, fullLayout, promises>>)]_vars

\* C1's case: the plot call failed for the missing token while wrappers of
\* earlier plot calls exist.
C1_Witness ==
    /\ call.op = "plot"
    /\ call.result = "noAccessTokenError"
    /\ Live(wrappers) # {}

(***************************************************************************)
(* C2.  As claimed: a plot call that follows toSVG on the same layout      *)
(* constructs a new wrapper for every exported subplot id and calls plot   *)
(* on no destroyed wrapper.  The code keeps the destroyed wrapper in       *)
(* fullLayout[id]._subplot and plots on it.                                *)
(***************************************************************************)
C2_ExportIsTerminal ==
    [][(/\ call.op = "toSVG" /\ call.result = "returned"
        /\ call'.op = "plot" /\ call'.result = "returned")
          => \A id \in Range(fullLayout._subplots) :
                /\ \E k \in 1..Len(call'.trace) :
                      call'.trace[k].e = "new Mapbox" /\ call'.trace[k].id = id
                /\ \A k \in 1..Len(call'.trace) :
                      (call'.trace[k].e = "plot" /\ call'.trace[k].id = id)
                          => ~wrappers'[call'.trace[k].w].destroyed]_vars

(***************************************************************************)
(* C3.  At most one live wrapper (constructed, not destroyed) exists per   *)
(* subplot id, whatever calls were made; so a plot call on a layout whose  *)
(* wrappers exist constructs no second one.                                *)
(***************************************************************************)
C3_OneLiveWrapperPerId ==
    \A id \in SubplotIds :
        Cardinality({w \in Live(wrappers) : wrappers[w].id = id}) <= 1

\* C3's case: two plot calls on the same live wrapper, with no draw cycle
\* completed in between.
C3_Witness ==
    /\ call.op = "plot"
    /\ Len(promises) = 2
    /\ promises[1].w = promises[2].w
    /\ promises[1].w \in Live(wrappers)

(***************************************************************************)
(* C4.  A wrapper gets its viewInitial in the plot call that constructs    *)
(* it, from the center, zoom, bearing and pitch the layout then has for    *)
(* its subplot, and no later step changes it.                              *)
(***************************************************************************)
C4_ViewInitialSetOnce ==
    [][\A w \in Occupied(wrappers') :
          IF w \in Occupied(wrappers)
          THEN /\ wrappers[w].viewInitial # Undefined
               /\ wrappers'[w].viewInitial = wrappers[w].viewInitial
          ELSE LET opts == fullLayout.opts[wrappers'[w].id] IN
               /\ call'.op = "plot"
               /\ wrappers'[w].viewInitial =
                     [center |-> opts.center, zoom |-> opts.zoom,
                      bearing |-> opts.bearing, pitch |-> opts.pitch]]_vars

\* C4's case: a plot call on a layout whose zoom is no longer the one the
\* wrapper's viewInitial was taken from.
C4_Witness ==
    /\ call.op = "plot"
    /\ call.result = "returned"
    /\ \E id \in Range(fullLayout._subplots) :
          LET w == fullLayout.opts[id]._subplot IN
          /\ w \in Occupied(wrappers)
          /\ wrappers[w].viewInitial.zoom # fullLayout.opts[id].zoom
          /\ wrappers[w].viewInitial.center # fullLayout.opts[id].center

(***************************************************************************)
(* C5.  clean destroys the wrapper of a subplot id exactly when the id is  *)
(* in the old layout's list, has a wrapper there and is absent from the    *)
(* new layout; the wrapper of an id the new layout keeps stays in its slot *)
(* and is unchanged.                                                       *)
(***************************************************************************)
C5_CleanDestroysRemovedOnly ==
    [][call'.op = "clean"
          => \A id \in SubplotIds :
                LET had == /\ id \in Range(fullLayout._subplots)
                           /\ TruthyRef(fullLayout.opts[id]._subplot)
                    kept == id \in DOMAIN fullLayout'.opts
                    destroys == {k \in 1..Len(call'.trace) :
                                    call'.trace[k].e = "destroy" /\ call'.trace[k].id = id}
                IN  /\ (destroys # {}) <=> (had /\ ~kept)
                    /\ (destroys # {}) =>
                          LET w == fullLayout.opts[id]._subplot IN
                          /\ \A k \in destroys : call'.trace[k].w = w
                          /\ w \notin Live(wrappers')
                    /\ (had /\ kept) =>
                          LET w == fullLayout.opts[id]._subplot IN
                          /\ fullLayout'.opts[id]._subplot = w
                          /\ wrappers'[w] = wrappers[w]]_vars

\* C5's case: clean destroyed the wrapper of a removed id while the new
\* layout keeps an id with a live wrapper.
C5_Witness ==
    /\ call.op = "clean"
    /\ Entries("destroy") # {}
    /\ \E id \in Range(fullLayout._subplots) : fullLayout.opts[id]._subplot \in Live(wrappers)

(***************************************************************************)
(* C6.  Under an engine version other than the required one, a plot call   *)
(* throws the version error and does nothing else: no Lib.error, warn or   *)
(* log, no write of the global token, no wrapper constructed, changed or   *)
(* plotted, also when the layout lacks a token a hosted style needs.       *)
(***************************************************************************)
C6_VersionCheckedFirst ==
    [][(call'.op = "plot" /\ mapboxgl.version # requiredVersion)
          => (/\ call'.result = "wrongVersionError"
              /\ call'.trace = <<>>
              /\ UNCHANGED <<mapboxgl, fullLayout, promises, wrappers>>)]_vars

\* C6's case: the version error on a layout that also lacks a needed token.
C6_Witness ==
    /\ call.op = "plot"
    /\ call.result = "wrongVersionError"
    /\ MissingToken(fullLayout)

(***************************************************************************)
(* C7.  A plot call that returns writes mapboxgl.accessToken once, after   *)
(* every message of token resolution, and leaves it the token that         *)
(* findAccessToken returns for the layout; a plot call that throws writes  *)
(* nothing and leaves the global token as it was.                          *)
(***************************************************************************)
C7_TokenWrittenOnceAfterResolution ==
    [][call'.op = "plot"
          => LET trace == call'.trace
                 writes == {k \in 1..Len(trace) : trace[k].e = "accessToken"}
             IN  IF call'.result = "returned"
                 THEN /\ Cardinality(writes) = 1
                      /\ \A k \in writes :
                            /\ trace[k].token = mapboxgl'.accessToken
                            /\ \A j \in 1..Len(trace) :
                                  trace[j].e \in {"Lib.error", "Lib.warn", "Lib.log"} => j < k
                      /\ mapboxgl'.accessToken =
                            findAccessToken(context, fullLayout, fullLayout._subplots).token
                 ELSE /\ writes = {}
                      /\ mapboxgl'.accessToken = mapboxgl.accessToken]_vars

\* C7's case: a plot call failed for the missing token and the global token
\* is still the one an earlier plot call wrote.
C7_Witness ==
    /\ call.op = "plot"
    /\ call.result = "noAccessTokenError"
    /\ mapboxgl.accessToken \in {"pk.a", "pk.b"}

(***************************************************************************)
(* C8.  As claimed: whenever the hosted-style subplots carry two or more   *)
(* distinct tokens, token resolution returns the token of the first        *)
(* hosted-style subplot that carries one and warns once.  This fails under *)
(* the context's empty token (the empty string is returned, no warning)    *)
(* and when another hosted-style subplot carries no token (it throws).     *)
(***************************************************************************)
C8_FirstUsefulTokenAlways ==
    (call.op = "findAccessToken" /\ Cardinality(UsefulTokens(fullLayout)) >= 2)
        => (/\ call.result = "returned"
            /\ Returned = FirstUsefulToken(fullLayout)
            /\ Cardinality(Entries("Lib.warn")) = 1)

\* C8, amended: when the context's token is not the empty string and every
\* hosted-style subplot carries a token, two or more distinct tokens among
\* the hosted-style subplots make token resolution return the token of the
\* first of them in the order of the subplot list, with exactly one warning.
C8_FirstUsefulToken ==
    (/\ call.op = "findAccessToken"
     /\ Cardinality(UsefulTokens(fullLayout)) >= 2
     /\ context.mapboxAccessToken # ""
     /\ ~MissingToken(fullLayout))
        => (/\ call.result = "returned"
            /\ Returned = FirstUsefulToken(fullLayout)
            /\ Cardinality(Entries("Lib.warn")) = 1)

\* C8's case: the token returned is not the first subplot's: that subplot
\* lists another token under a style that is not hosted.
C8_Witness ==
    /\ call.op = "findAccessToken"
    /\ call.result = "returned"
    /\ Cardinality(UsefulTokens(fullLayout)) >= 2
    /\ context.mapboxAccessToken # ""
    /\ CarriesToken(fullLayout.opts[fullLayout._subplots[1]])
    /\ fullLayout.opts[fullLayout._subplots[1]].accesstoken # Returned

(***************************************************************************)
(* C9.  As claimed: whenever no subplot has a hosted style, token          *)
(* resolution returns the empty string, with one Lib.log if a subplot      *)
(* lists a token and none otherwise.  This fails under the context's empty *)
(* token: the tokens listed are then not logged.                           *)
(***************************************************************************)
C9_UnusedTokensAlwaysLogged ==
    (call.op = "findAccessToken" /\ NoHostedStyle(fullLayout))
        => (/\ call.result = "returned"
            /\ Returned = ""
            /\ Cardinality(Entries("Lib.log")) = IF ListsToken(fullLayout) THEN 1 ELSE 0)

\* C9, amended: when the context's token is not the empty string and no
\* subplot has a hosted style, token resolution returns the empty string
\* however many tokens are listed, with exactly one Lib.log if a subplot
\* lists a token and none otherwise.
C9_UnusedTokensLogged ==
    (/\ call.op = "findAccessToken"
     /\ NoHostedStyle(fullLayout)
     /\ context.mapboxAccessToken # "")
        => (/\ call.result = "returned"
            /\ Returned = ""
            /\ Cardinality(Entries("Lib.log")) = IF ListsToken(fullLayout) THEN 1 ELSE 0)

\* C9's case: three subplots without a hosted style list two distinct
\* tokens, and one log was made.
C9_Witness ==
    /\ call.op = "findAccessToken"
    /\ NoHostedStyle(fullLayout)
    /\ context.mapboxAccessToken # ""
    /\ Len(fullLayout._subplots) = 3
    /\ Cardinality({fullLayout.opts[id].accesstoken : id \in Range(fullLayout._subplots)}
                       \ {"", Null}) = 2
    /\ Cardinality(Entries("Lib.log")) = 1

(***************************************************************************)
(* C10.  As claimed: updateFx constructs no wrapper, returns also when a   *)
(* subplot id of the layout has no wrapper, and calls updateFx on the      *)
(* wrapper of every id that has one.  The code throws a TypeError at the   *)
(* first id without a wrapper and skips the ids after it.                  *)
(***************************************************************************)
C10_UpdateFxSkipsMissingWrappers ==
    call.op = "updateFx"
        => /\ call.result = "returned"
           /\ Entries("new Mapbox") = {}
           /\ \A id \in Range(fullLayout._subplots) :
                 TruthyRef(fullLayout.opts[id]._subplot)
                     => \E k \in Entries("updateFx") :
                           /\ call.trace[k].id = id
                           /\ call.trace[k].w = fullLayout.opts[id]._subplot

(***************************************************************************)
(* C11.  Under the context's empty token, token resolution returns the     *)
(* empty string whatever the layout: it throws no missing-token error and  *)
(* makes no Lib.error, Lib.warn or Lib.log call, also when a hosted-style  *)
(* subplot carries no token or the subplots list several tokens.           *)
(***************************************************************************)
C11_EmptyContextTokenBypasses ==
    (call.op = "findAccessToken" /\ context.mapboxAccessToken = "")
        => (/\ call.result = "returned"
            /\ Returned = ""
            /\ Entries("Lib.error") = {}
            /\ Entries("Lib.warn") = {}
            /\ Entries("Lib.log") = {}
            /\ Len(call.trace) = 1)

\* C11's case: under the context's empty token, a layout that would
\* otherwise fail (a hosted-style subplot without a token) and that also
\* has two distinct useful tokens.
C11_Witness ==
    /\ call.op = "findAccessToken"
    /\ context.mapboxAccessToken = ""
    /\ MissingToken(fullLayout)
    /\ Cardinality(UsefulTokens(fullLayout)) = 2
    /\ call.result = "returned"

(***************************************************************************)
(* C12.  As claimed: whenever the hosted-style subplots carry exactly one  *)
(* distinct token, token resolution returns that token and warns not.      *)
(* This fails under the context's empty token (the empty string is         *)
(* returned) and when another hosted-style subplot carries no token (it    *)
(* throws).                                                                *)
(***************************************************************************)
C12_SingleUsefulTokenAlways ==
    (call.op = "findAccessToken" /\ Cardinality(UsefulTokens(fullLayout)) = 1)
        => (/\ call.result = "returned"
            /\ {Returned} = UsefulTokens(fullLayout)
            /\ Entries("Lib.warn") = {})

\* C12, amended: when the context's token is not the empty string and every
\* hosted-style subplot carries a token, exactly one distinct token among
\* the hosted-style subplots makes token resolution return that token with
\* no warning, however many subplots repeat it and whatever tokens the
\* subplots without a hosted style list.
C12_SingleUsefulToken ==
    (/\ call.op = "findAccessToken"
     /\ Cardinality(UsefulTokens(fullLayout)) = 1
     /\ context.mapboxAccessToken # ""
     /\ ~MissingToken(fullLayout))
        => (/\ call.result = "returned"
            /\ {Returned} = UsefulTokens(fullLayout)
            /\ Entries("Lib.warn") = {}
            /\ Entries("Lib.error") = {}
            /\ Entries("Lib.log") = {})

\* C12's case: two hosted-style subplots repeat one token and a third
\* subplot, without a hosted style, lists another.
C12_Witness ==
    /\ call.op = "findAccessToken"
    /\ call.result = "returned"
    /\ context.mapboxAccessToken # ""
    /\ Cardinality(UsefulAt(fullLayout)) = 2
    /\ Cardinality(UsefulTokens(fullLayout)) = 1
    /\ \E id \in Range(fullLayout._subplots) :
          /\ CarriesToken(fullLayout.opts[id])
          /\ fullLayout.opts[id].accesstoken \notin UsefulTokens(fullLayout)

(***************************************************************************)
(* The exact value of an export's rectangle, in fractions num/den, and how *)
(* far a binary64 is from a fraction.                                      *)
(***************************************************************************)
QAdd(p, q) == [num |-> p.num * q.den + q.num * p.den, den |-> p.den * q.den]

QSub(p, q) == [num |-> p.num * q.den - q.num * p.den, den |-> p.den * q.den]

QMul(p, q) == [num |-> p.num * q.num, den |-> p.den * q.den]

ExactRect(size, domain) ==
    [x |-> QAdd(size.l, QMul(size.w, domain.x[1])),
     y |-> QAdd(size.t, QMul(size.h, QSub(Decimal(1, 1), domain.y[2]))),
     width |-> QMul(size.w, QSub(domain.x[2], domain.x[1])),
     height |-> QMul(size.h, QSub(domain.y[2], domain.y[1]))]

\* the binary64 v is within 2^-t of the fraction q
Within(v, q, t) ==
    LET S == Max(t, 0 - v.e)
        A == MulNat(MulNat(v.m, Natural(<<q.den>>)), Pow2(v.e + S))
        B == MulNat(Natural(<<q.num>>), Pow2(S))
        tol == MulNat(Natural(<<q.den>>), Pow2(S - t))
        dist == IF LessNat(A, B) THEN SubNat(B, A) ELSE SubNat(A, B)
    IN  ~LessNat(tol, dist)

\* the binary64 v is worth n * 2^e exactly
Worth(v, n, e) ==
    LET S == Min(v.e, e) IN ShiftLeft(v.m, v.e - S) = ShiftLeft(n, e - S)

\* the images of the call lie where the formulas put them, to within 2^-40
ImagesNearExact ==
    \A k \in Entries("image") :
        LET rect == call.trace[k].data
            exact == ExactRect(fullLayout._size, fullLayout.opts[call.trace[k].id].domain)
        IN  /\ Within(rect.x, exact.x, 40)
            /\ Within(rect.y, exact.y, 40)
            /\ Within(rect.width, exact.width, 40)
            /\ Within(rect.height, exact.height, 40)

\* the images of the call made for the domain x:[0.2,0.8], y:[0.1,0.9] on an
\* 800 by 600 plot area without margins
ExampleImages ==
    {k \in Entries("image") :
        /\ fullLayout._size = Size1
        /\ fullLayout.opts[call.trace[k].id].domain = Domain1}

PlotCalls(trace) == SelectSeq(trace, LAMBDA ev : ev.e = "plot")

\* data is the traces of calcData drawn in the subplot id, in their order
IsSlice(data, calcData, id) ==
    LET at == {k \in 1..Len(calcData) : calcData[k].subplot = id} IN
    /\ Len(data) = Cardinality(at)
    /\ \A j \in 1..Len(data) :
          \E k \in at : Cardinality({i \in at : i < k}) = j - 1 /\ data[j] = calcData[k]

(***************************************************************************)
(* C14.  A plot call under the required version, on a layout that lacks no *)
(* token, returns and has called plot on the wrappers once per subplot id  *)
(* of the layout, in the order of the id list: the i-th call is made on    *)
(* the wrapper of the i-th id, with the traces of the calcdata that belong *)
(* to that id, with the full layout (as the turns up to the i-th left it)  *)
(* and with the shared promises, which hold what the calls before pushed   *)
(* and onto which this call pushes one promise more.                       *)
(***************************************************************************)
C14_PlotOncePerIdInOrder ==
    [][(/\ call'.op = "plot"
        /\ mapboxgl.version = requiredVersion
        /\ (context.mapboxAccessToken = "" \/ ~MissingToken(fullLayout)))
          => LET ids == fullLayout._subplots
                 calls == PlotCalls(call'.trace)
             IN  /\ call'.result = "returned"
                 /\ Len(calls) = Len(ids)
                 /\ Len(promises') = Len(promises) + Len(ids)
                 /\ \A i \in 1..Len(ids) :
                       /\ calls[i].id = ids[i]
                       /\ calls[i].w = fullLayout'.opts[ids[i]]._subplot
                       /\ IsSlice(calls[i].data[1], calcdata, ids[i])
                       /\ calls[i].data[2] =
                             [fullLayout EXCEPT !.opts =
                                 [id \in DOMAIN fullLayout.opts |->
                                     IF \E j \in 1..i : ids[j] = id
                                     THEN fullLayout'.opts[id]
                                     ELSE fullLayout.opts[id]]]
                       /\ calls[i].data[3] = SubSeq(promises', 1, Len(promises) + i - 1)
                       /\ promises'[Len(promises) + i].w = calls[i].w]_vars

\* C14's case: a plot call on two subplots whose traces alternate in the
\* calcdata: the first wrapper got two traces and the second the one in
\* between, with the promise of the first call already pushed.
C14_Witness ==
    /\ call.op = "plot"
    /\ call.result = "returned"
    /\ Len(PlotCalls(call.trace)) = 2
    /\ Len(PlotCalls(call.trace)[1].data[1]) = 2
    /\ Len(PlotCalls(call.trace)[2].data[1]) = 1
    /\ Len(PlotCalls(call.trace)[2].data[3]) = 1

(***************************************************************************)
(* C17.  clean and toSVG leave the shared promises as they are, also the   *)
(* promises of the wrappers they destroy: no render is cancelled or waited *)
(* for.  When a render completes, only its promise changes: the wrappers,  *)
(* the layout and its slots and the global token stay as they were, also   *)
(* when the wrapper of the render was destroyed before.                    *)
(***************************************************************************)
C17_InFlightRenderTolerated ==
    [][/\ call'.op \in {"clean", "toSVG"} => promises' = promises
       /\ call'.op = "settle"
             => /\ UNCHANGED <<wrappers, fullLayout, mapboxgl>>
                /\ Len(promises') = Len(promises)
                /\ \A k \in 1..Len(promises) : promises'[k].w = promises[k].w]_vars

\* C17's case: a render completed whose wrapper clean had destroyed, and
\* which no layout slot refers to any more.
C17_Witness ==
    /\ call.op = "settle"
    /\ wrappers[call.trace[1].w].destroyed
    /\ \A id \in Range(fullLayout._subplots) :
          fullLayout.opts[id]._subplot # call.trace[1].w

(***************************************************************************)
(* C15.  When a plot call fails with the missing-token error, it has made  *)
(* one Lib.error call for every hosted-style subplot without a token, in   *)
(* the order of the id list and also for those after the first, and        *)
(* nothing else: the error is thrown after the last subplot was looked at, *)
(* and no wrapper is constructed or plotted for any subplot.               *)
(***************************************************************************)
C15_ErrorAfterScanningAll ==
    (call.op = "plot" /\ call.result = "noAccessTokenError")
        => LET ids == fullLayout._subplots
               lacking == SelectSeq(ids, LAMBDA id :
                              /\ HostedStyle(fullLayout.opts[id].style)
                              /\ ~CarriesToken(fullLayout.opts[id]))
           IN  /\ Len(lacking) >= 1
               /\ Len(call.trace) = Len(lacking)
               /\ \A k \in 1..Len(lacking) :
                     call.trace[k].e = "Lib.error" /\ call.trace[k].id = lacking[k]

\* C15's case: both subplots of the layout have a hosted style and lack a
\* token, and both were reported before the error.
C15_Witness ==
    /\ call.op = "plot"
    /\ call.result = "noAccessTokenError"
    /\ Len(fullLayout._subplots) = 2
    /\ Cardinality(Entries("Lib.error")) = 2

(***************************************************************************)
(* C16.  As claimed: when clean destroys the wrapper of a removed subplot  *)
(* id, it also drops the reference, and no layout slot refers to the       *)
(* destroyed wrapper afterwards.  The code calls destroy() and leaves      *)
(* oldFullLayout[key]._subplot as it was.                                  *)
(***************************************************************************)
C16_CleanDropsReference ==
    call.op = "clean"
        => \A k \in Entries("destroy") :
              /\ ~TruthyRef(call.oldSubplot[call.trace[k].id])
              /\ \A id \in Range(fullLayout._subplots) :
                    fullLayout.opts[id]._subplot # call.trace[k].w

(***************************************************************************)
(* C18.  After a plot call that returned, the global token is the empty    *)
(* string or a token that a hosted-style subplot of the layout carries; it *)
(* is never a token that only subplots without a hosted style list.        *)
(***************************************************************************)
C18_TokenOfHostedSubplot ==
    (call.op = "plot" /\ call.result = "returned")
        => mapboxgl.accessToken \in {""} \cup UsefulTokens(fullLayout)

\* C18's case: a subplot without a hosted style lists a token that no
\* hosted-style subplot carries, beside a hosted-style subplot with a token.
C18_Witness ==
    /\ call.op = "plot"
    /\ call.result = "returned"
    /\ UsefulTokens(fullLayout) # {}
    /\ \E id \in Range(fullLayout._subplots) :
          /\ CarriesToken(fullLayout.opts[id])
          /\ fullLayout.opts[id].accesstoken \notin UsefulTokens(fullLayout)

(***************************************************************************)
(* C19.  clean, toSVG and updateFx write no global token, push or drop no  *)
(* promise, construct no wrapper and set no viewInitial: every wrapper     *)
(* there is after such a call was there before, with the viewInitial it    *)
(* had.                                                                    *)
(***************************************************************************)
C19_OnlyPlotConstructs ==
    [][call'.op \in {"clean", "toSVG", "updateFx"}
          => /\ mapboxgl' = mapboxgl
             /\ promises' = promises
             /\ \A k \in 1..Len(call'.trace) :
                   call'.trace[k].e \notin {"new Mapbox", "viewInitial", "accessToken", "plot"}
             /\ \A w \in Occupied(wrappers') :
                   /\ w \in Occupied(wrappers)
                   /\ wrappers'[w].id = wrappers[w].id
                   /\ wrappers'[w].viewInitial = wrappers[w].viewInitial]_vars

\* C19's case: updateFx was called on two wrappers while the global token
\* was set and renders were under way.
C19_Witness ==
    /\ call.op = "updateFx"
    /\ call.result = "returned"
    /\ Cardinality(Entries("updateFx")) = 2
    /\ mapboxgl.accessToken = "pk.a"
    /\ Len(promises) = 2

====
